---- MODULE Spec2Model ----
(***************************************************************************)
(* A model of AdvanceSIPV1.py: the SIP projection engine.                  *)
(*                                                                         *)
(* Number representation.  The program computes with Python floats; the   *)
(* model computes with integers in fixed point:                            *)
(*   - an amount of money is an integer number of tenths of a currency     *)
(*     unit (MoneyScale sub-units per unit);                               *)
(*   - a percentage is an integer number of tenths of a percent            *)
(*     (PctScale per percent), so 11.5% is 115;                            *)
(*   - a duration in years is an integer number of thousandths of a year   *)
(*     (YearScale per year);                                               *)
(*   - a growth factor or a rate as a fraction is an integer number of     *)
(*     One-ths, One = 2^18.                                                *)
(* Every product and quotient is truncated toward zero to its scale, where *)
(* the float operation rounds to the nearest double.                       *)
(***************************************************************************)
EXTENDS Integers, Sequences, FiniteSets, TLC

MoneyScale == 10^1
PctScale == 10^1
YearScale == 10^3
Limb == 2^9
One == Limb * Limb

Abs(x) == IF x < 0 THEN -x ELSE x

Sgn(x) == IF x < 0 THEN -1 ELSE 1

Max(a, b) == IF a >= b THEN a ELSE b

Min(a, b) == IF a <= b THEN a ELSE b

\* a * b / One for a, b >= 0, by limbs so that no intermediate product
\* leaves the 32-bit range of the model checker's integers.
MulNat(a, b) ==
    LET a1 == a \div Limb
        a0 == a % Limb
        b1 == b \div Limb
        b0 == b % Limb
    IN  a1 * b1 + ((a1 * b0 + a0 * b1) + ((a0 * b0) \div Limb)) \div Limb

\* The float product x * f of a value x and a factor f (One-ths).
MulS(a, b) == Sgn(a) * Sgn(b) * MulNat(Abs(a), Abs(b))

\* The long division (q * c + r) * 2^k / c, one binary digit at a time.
RECURSIVE DivLoop(_, _, _, _)
DivLoop(q, r, c, k) ==
    IF k = 0 THEN q
    ELSE DivLoop(2 * q + ((2 * r) \div c), (2 * r) % c, c, k - 1)

\* The float quotient a / c as a fraction in One-ths (c > 0).
DivS(a, c) == Sgn(a) * DivLoop(Abs(a) \div c, Abs(a) % c, c, 18)

\* The float quotient a / d of two integers, truncated toward zero (d > 0).
TruncDiv(a, d) == Sgn(a) * (Abs(a) \div d)

\* amount * pct / 100 for a percentage in tenths of a percent.
PctOf(amount, pct) ==
    LET d == 100 * PctScale
        a == Abs(amount)
        p == Abs(pct)
    IN  Sgn(amount) * Sgn(pct) * ((a \div d) * p + ((a % d) * p) \div d)

\* pct / 100 as a fraction in One-ths.
PctFrac(pct) == PctOf(One, pct)

\* g ** n for a factor g in One-ths and an integer n >= 0.
RECURSIVE PowNat(_, _)
PowNat(g, n) ==
    IF n = 0 THEN One
    ELSE IF n % 2 = 1 THEN MulS(PowNat(g, n - 1), g)
    ELSE LET h == PowNat(g, n \div 2) IN MulS(h, h)

\* g ** n for any integer n (g > 0).
PowS(g, n) == IF n >= 0 THEN PowNat(g, n) ELSE DivS(One, PowNat(g, -n))

\* The largest factor g in lo..hi with g ** 12 <= G (the search assumes
\* lo ** 12 <= G).
RECURSIVE RootSearch(_, _, _)
RootSearch(lo, hi, G) ==
    IF lo >= hi THEN lo
    ELSE LET mid == (lo + hi + 1) \div 2
         IN  IF PowNat(mid, 12) <= G THEN RootSearch(mid, hi, G)
             ELSE RootSearch(lo, mid - 1, G)

\* (1 + AnnualRate) ** (1 / 12) - 1 for AnnualRate = NetReturn / 100 > 0.
MonthlyRateOf(NetReturn) ==
    LET G == One + PctFrac(NetReturn)
    IN  RootSearch(One, Min(G, 2 * One), G) - One

\* int(InvestmentYears * 12)
TotalMonthsOf(InvestmentYears) == TruncDiv(InvestmentYears * 12, YearScale)

\* round(x, 0) of an amount: to the nearest whole unit, ties to even.
RoundUnit(x) ==
    LET a == Abs(x)
        q == a \div MoneyScale
        r2 == 2 * (a % MoneyScale)
        up == r2 > MoneyScale \/ (r2 = MoneyScale /\ q % 2 = 1)
    IN  Sgn(x) * (IF up THEN q + 1 ELSE q) * MoneyScale

\* The step-up with its sign slipped: MonthlySip * (1 - pct / 100).
StepUpDown(MonthlySip, YearlyIncreasePercent) ==
    MonthlySip - PctOf(MonthlySip, YearlyIncreasePercent)

\* The step-up left out: the contribution stays as it is.
StepUpNone(MonthlySip, YearlyIncreasePercent) == MonthlySip

\* MonthlySip * (1 + YearlyIncreasePercent / 100)
StepUp(MonthlySip, YearlyIncreasePercent) ==
    MonthlySip + PctOf(MonthlySip, YearlyIncreasePercent)

\* The step-up test without its second half: the last month steps up too.
IsStepUpMonthAlsoLast(Month, TotalMonths) == (Month + 1) % 12 = 0

\* The step-up test that closes the body of every monthly loop.
IsStepUpMonth(Month, TotalMonths) ==
    (Month + 1) % 12 = 0 /\ Month < TotalMonths - 1

\* What the iterations Month .. End - 1 of the loop of CalculateFutureValue
\* add to FutureValue, for a stretch of months in which the step-up test
\* fails.
RECURSIVE FutureValueMonths(_, _, _, _, _)
FutureValueMonths(MonthlySip, Month, End, TotalMonths, MonthlyRate) ==
    IF Month >= End THEN 0
    ELSE LET MonthsRemaining == TotalMonths - Month
         IN  MulS(MonthlySip, PowS(One + MonthlyRate, MonthsRemaining))
             + FutureValueMonths(MonthlySip, Month + 1, End, TotalMonths, MonthlyRate)

\* What the loop of CalculateFutureValue adds to FutureValue from iteration
\* Month (a multiple of 12) on, taken one year at a time: the step-up test
\* can only succeed in the last month of a year.
RECURSIVE FutureValueLoop(_, _, _, _, _)
FutureValueLoop(MonthlySip, Month, TotalMonths, MonthlyRate, YearlyIncreasePercent) ==
    IF Month >= TotalMonths THEN 0
    ELSE LET End == Min(TotalMonths, Month + 12)
         IN  FutureValueMonths(MonthlySip, Month, End, TotalMonths, MonthlyRate)
             + FutureValueLoop(IF IsStepUpMonth(End - 1, TotalMonths)
                               THEN StepUp(MonthlySip, YearlyIncreasePercent)
                               ELSE MonthlySip,
                               End, TotalMonths, MonthlyRate, YearlyIncreasePercent)

CalculateFutureValue(MonthlyAmount, YearlyReturnPercent, InvestmentYears, YearlyIncreasePercent, FundExpensePercent, TaxImpactPercent, StartingLumpsum) ==
    LET NetReturn == YearlyReturnPercent - FundExpensePercent - TaxImpactPercent
        MonthlyRate == MonthlyRateOf(NetReturn)
        TotalMonths == TotalMonthsOf(InvestmentYears)
    IN  IF NetReturn <= 0 THEN 0
        ELSE IF TotalMonths = 0 THEN StartingLumpsum
        ELSE MulS(StartingLumpsum, PowS(One + MonthlyRate, TotalMonths))
             + FutureValueLoop(MonthlyAmount, 0, TotalMonths, MonthlyRate,
                               YearlyIncreasePercent)

\* The duration rounded to a whole year: round(x, 0).
RoundYear(x) ==
    LET q == x \div YearScale
        r2 == 2 * (x % YearScale)
        up == r2 > YearScale \/ (r2 = YearScale /\ q % 2 = 1)
    IN  (IF up THEN q + 1 ELSE q) * YearScale

\* round(x, 1) of a duration: to the nearest tenth of a year, ties to even.
RoundTenth(x) ==
    LET m == YearScale \div 10
        q == x \div m
        r2 == 2 * (x % m)
        up == r2 > m \/ (r2 = m /\ q % 2 = 1)
    IN  (IF up THEN q + 1 ELSE q) * m

\* (Low + High) / 2 to the nearest representable value, ties to even.
Midpoint(Low, High) ==
    LET s == Low + High
        q == s \div 2
    IN  IF s % 2 = 0 \/ q % 2 = 0 THEN q ELSE q + 1

\* The iteration with the starting lumpsum left out of the trial balance.
SipSearchStepNoLumpsum(b, TargetAmount, YearlyReturnPercent, InvestmentYears, YearlyIncreasePercent, FundExpensePercent, TaxImpactPercent, StartingLumpsum) ==
    LET Mid == Midpoint(b.Low, b.High)
    IN  IF CalculateFutureValue(Mid, YearlyReturnPercent, InvestmentYears,
                                YearlyIncreasePercent, FundExpensePercent,
                                TaxImpactPercent, 0) < TargetAmount
        THEN [b EXCEPT !.Low = Mid, !.Mid = Mid, !.iter = @ + 1]
        ELSE [b EXCEPT !.High = Mid, !.Mid = Mid, !.iter = @ + 1]

\* One iteration of the loop of FindRequiredMonthlySip on <<Low, High, Mid>>.
SipSearchStep(b, TargetAmount, YearlyReturnPercent, InvestmentYears, YearlyIncreasePercent, FundExpensePercent, TaxImpactPercent, StartingLumpsum) ==
    LET Mid == Midpoint(b.Low, b.High)
    IN  IF CalculateFutureValue(Mid, YearlyReturnPercent, InvestmentYears,
                                YearlyIncreasePercent, FundExpensePercent,
                                TaxImpactPercent, StartingLumpsum) < TargetAmount
        THEN [b EXCEPT !.Low = Mid, !.Mid = Mid, !.iter = @ + 1]
        ELSE [b EXCEPT !.High = Mid, !.Mid = Mid, !.iter = @ + 1]

\* One iteration of the loop of FindRequiredYears on <<Low, High, Mid>>.
YearsSearchStep(b, TargetAmount, MonthlyAmount, YearlyReturnPercent, YearlyIncreasePercent, FundExpensePercent, TaxImpactPercent, StartingLumpsum) ==
    LET Mid == Midpoint(b.Low, b.High)
    IN  IF CalculateFutureValue(MonthlyAmount, YearlyReturnPercent, Mid,
                                YearlyIncreasePercent, FundExpensePercent,
                                TaxImpactPercent, StartingLumpsum) < TargetAmount
        THEN [b EXCEPT !.Low = Mid, !.Mid = Mid, !.iter = @ + 1]
        ELSE [b EXCEPT !.High = Mid, !.Mid = Mid, !.iter = @ + 1]

\* The number of iterations of each goal search.
SearchIterations == 100

\* The default MaxYears of SimulateRetirementWithdrawals.
DefaultMaxYears == 40

\* The state before year 1 with a withdrawal rate of 0 taken as unset and
\* replaced by the default 4%.
RetireStartDefaultRate(RetirementCorpus, YearlyWithdrawalPercent, InflationPercent, ReturnAfterRetirementPercent, MaxYears) ==
    [WithdrawalRate |-> YearlyWithdrawalPercent,
     FirstYearWithdrawal |->
         PctOf(RetirementCorpus,
               IF YearlyWithdrawalPercent = 0 THEN 40 ELSE YearlyWithdrawalPercent),
     Inflation |-> PctFrac(InflationPercent),
     InvestmentReturn |-> ReturnAfterRetirementPercent,
     RetirementCorpus |-> RetirementCorpus,
     RemainingCorpus |-> RetirementCorpus,
     MaxYears |-> MaxYears,
     Year |-> 0,
     YearlyData |-> << >>,
     YearsMoneyLasts |-> 0,
     stopped |-> FALSE]

\* Lines 142-149 of SimulateRetirementWithdrawals: the state before year 1.
\* WithdrawalRate and InvestmentReturn are kept as percentages, Inflation as
\* a fraction; stopped records that the loop has hit its break.
RetireStart(RetirementCorpus, YearlyWithdrawalPercent, InflationPercent, ReturnAfterRetirementPercent, MaxYears) ==
    [WithdrawalRate |-> YearlyWithdrawalPercent,
     FirstYearWithdrawal |-> PctOf(RetirementCorpus, YearlyWithdrawalPercent),
     Inflation |-> PctFrac(InflationPercent),
     InvestmentReturn |-> ReturnAfterRetirementPercent,
     RetirementCorpus |-> RetirementCorpus,
     RemainingCorpus |-> RetirementCorpus,
     MaxYears |-> MaxYears,
     Year |-> 0,
     YearlyData |-> << >>,
     YearsMoneyLasts |-> 0,
     stopped |-> FALSE]

\* The test with zero counted as money left.
CorpusLeftOrZero(RemainingCorpus) == RemainingCorpus >= 0

\* The test that decides whether the drawdown loop goes on after a year.
CorpusLeft(RemainingCorpus) == RemainingCorpus > 0

\* The body of the loop of SimulateRetirementWithdrawals for year r.Year + 1.
RetireYear(r) ==
    LET Year == r.Year + 1
        AnnualWithdrawal == MulS(r.FirstYearWithdrawal, PowS(One + r.Inflation, Year - 1))
        CorpusStart == r.RemainingCorpus
        RemainingCorpus == CorpusStart + PctOf(CorpusStart, r.InvestmentReturn) - AnnualWithdrawal
        row == [Year |-> Year,
                WithdrawalAmount |-> RoundUnit(AnnualWithdrawal),
                CorpusAtYearStart |-> RoundUnit(CorpusStart),
                CorpusAtYearEnd |-> RoundUnit(Max(RemainingCorpus, 0)),
                WithdrawalPctOfCorpus |->
                    IF CorpusStart > 0
                    THEN (AnnualWithdrawal \div CorpusStart) * 100 * 100
                         + MulNat(DivLoop(0, AnnualWithdrawal % CorpusStart, CorpusStart, 18),
                                  100 * 100)
                    ELSE 0]
    IN  [r EXCEPT !.Year = Year,
                  !.RemainingCorpus = RemainingCorpus,
                  !.YearlyData = Append(@, row),
                  !.YearsMoneyLasts = IF CorpusLeft(RemainingCorpus) THEN Year ELSE @,
                  !.stopped = ~CorpusLeft(RemainingCorpus)]

(***************************************************************************)
(* State.  pc is the place of the call in the program; inp holds the       *)
(* arguments of the entry point and run those RunSipCalculation is called  *)
(* with; srch, loc, fc, xr, bd and rt hold the local variables of the goal *)
(* search, of RunSipCalculation (net return, monthly return, months), of   *)
(* its final-corpus loop, its XIRR cashflow loop, its breakdown loop and   *)
(* of SimulateRetirementWithdrawals; out is what has been printed, err the *)
(* ValueError raised.  call and ret are the arguments and the result of a  *)
(* helper function called on its own; CalculateReturns called on its own  *)
(* keeps its local variables in srch.                                      *)
(***************************************************************************)
VARIABLES pc, inp, run, srch, loc, fc, xr, bd, rt, out, err, call, ret

vars == <<pc, inp, run, srch, loc, fc, xr, bd, rt, out, err, call, ret>>

NoSrch == [Low |-> 0, High |-> 0, Mid |-> 0, iter |-> 0]

NoLoc == [NetReturn |-> 0, MonthlyReturn |-> 0, TotalMonths |-> 0]

NoFc == [FinalCorpus |-> 0, TotalAmountInvested |-> 0, TotalStepUpAmount |-> 0,
         MonthlySip |-> 0, Month |-> 0]

NoXr == [Cashflows |-> << >>, Dates |-> << >>, CurrentSip |-> 0, Month |-> 0]

NoBd == [CurrentBalance |-> 0, TotalInvestedSoFar |-> 0, CurrentSip |-> 0,
         CumulativeGains |-> 0, MonthNum |-> 0, MonthlyBreakdown |-> << >>,
         YearlyProgress |-> << >>, GainsExceedInvestmentYear |-> 0,
         GainsExceedInvestmentMonth |-> 0]

NoRt == RetireStart(0, 0, 0, 0, 0)

NoInp == [EntryPoint |-> "none", MonthlyInvestment |-> 0, ExpectedReturnPercent |-> 0,
          InvestmentYears |-> 0, FundExpenseRatio |-> 0, YearlyStepUp |-> 0,
          InflationRate |-> 0, TaxOnGains |-> 0, StartingLumpsum |-> 0,
          HasTarget |-> FALSE, TargetCorpus |-> 0,
          WithdrawalRateInRetirement |-> 0, ReturnAfterRetirement |-> 0]

NoCall == [fn |-> "none"]

(***************************************************************************)
(* The entry points.                                                       *)
(***************************************************************************)

\* SimpleSipCalculator: prints its banner and calls RunSipCalculation.
SimpleSipCalculator ==
    /\ pc = "entry"
    /\ inp.EntryPoint = "simple"
    /\ out' = Append(out, "banner")
    /\ run' = inp
    /\ pc' = "validate"
    /\ UNCHANGED <<inp, srch, loc, fc, xr, bd, rt, err, call, ret>>

\* GoalBaseSipCalculator up to its call of FindRequiredMonthlySip.
GoalBaseSipCalculator ==
    /\ pc = "entry"
    /\ inp.EntryPoint = "goal"
    /\ IF ~inp.HasTarget \/ inp.TargetCorpus <= 0
       THEN /\ err' = "TargetCorpus is required and must be > 0"
            /\ pc' = "error"
            /\ srch' = srch
       ELSE /\ srch' = [Low |-> 0, High |-> inp.TargetCorpus * 2, Mid |-> 0, iter |-> 0]
            /\ pc' = "sip_search"
            /\ err' = err
    /\ UNCHANGED <<inp, run, loc, fc, xr, bd, rt, out, call, ret>>

\* One iteration of FindRequiredMonthlySip.
FindRequiredMonthlySipStep ==
    /\ pc = "sip_search"
    /\ srch.iter < SearchIterations
    /\ srch' = SipSearchStep(srch, inp.TargetCorpus, inp.ExpectedReturnPercent,
                             inp.InvestmentYears, inp.YearlyStepUp,
                             inp.FundExpenseRatio, inp.TaxOnGains, inp.StartingLumpsum)
    /\ UNCHANGED <<pc, inp, run, loc, fc, xr, bd, rt, out, err, call, ret>>

\* FindRequiredMonthlySip returns round(Mid, 0); GoalBaseSipCalculator prints
\* it and calls RunSipCalculation with it.
GoalBaseSipCalculatorRun ==
    /\ pc = "sip_search"
    /\ srch.iter = SearchIterations
    /\ out' = Append(out, "required")
    /\ run' = [inp EXCEPT !.MonthlyInvestment = RoundUnit(srch.Mid)]
    /\ pc' = "validate"
    /\ UNCHANGED <<inp, srch, loc, fc, xr, bd, rt, err, call, ret>>

\* TimeLineBaseSipCalculator up to its call of FindRequiredYears.
TimeLineBaseSipCalculator ==
    /\ pc = "entry"
    /\ inp.EntryPoint = "timeline"
    /\ IF ~inp.HasTarget \/ inp.TargetCorpus <= 0
       THEN /\ err' = "TargetCorpus is required and must be > 0"
            /\ pc' = "error"
            /\ srch' = srch
       ELSE /\ srch' = [Low |-> YearScale \div 10, High |-> 80 * YearScale,
                        Mid |-> 0, iter |-> 0]
            /\ pc' = "years_search"
            /\ err' = err
    /\ UNCHANGED <<inp, run, loc, fc, xr, bd, rt, out, call, ret>>

\* One iteration of FindRequiredYears.
FindRequiredYearsStep ==
    /\ pc = "years_search"
    /\ srch.iter < SearchIterations
    /\ srch' = YearsSearchStep(srch, inp.TargetCorpus, inp.MonthlyInvestment,
                               inp.ExpectedReturnPercent, inp.YearlyStepUp,
                               inp.FundExpenseRatio, inp.TaxOnGains, inp.StartingLumpsum)
    /\ UNCHANGED <<pc, inp, run, loc, fc, xr, bd, rt, out, err, call, ret>>

\* FindRequiredYears returns round(Mid, 1); TimeLineBaseSipCalculator prints
\* it and calls RunSipCalculation with it.
TimeLineBaseSipCalculatorRun ==
    /\ pc = "years_search"
    /\ srch.iter = SearchIterations
    /\ out' = Append(out, "required")
    /\ run' = [inp EXCEPT !.InvestmentYears = RoundTenth(srch.Mid)]
    /\ pc' = "validate"
    /\ UNCHANGED <<inp, srch, loc, fc, xr, bd, rt, err, call, ret>>

(***************************************************************************)
(* RunSipCalculation.                                                      *)
(***************************************************************************)

\* The ValueError of lines 190-199, "" when the arguments pass.
ValidationError(a) ==
    IF a.InvestmentYears <= 0 THEN "Investment period must be positive"
    ELSE IF a.MonthlyInvestment < 0 THEN "Monthly investment cannot be negative"
    ELSE IF a.StartingLumpsum < 0 THEN "Starting lumpsum cannot be negative"
    ELSE IF a.ExpectedReturnPercent - a.FundExpenseRatio - a.TaxOnGains <= 0
    THEN "Net return must be positive!"
    ELSE ""

\* The warnings of lines 202-207, in order.
Warnings(a) ==
    (IF a.ExpectedReturnPercent > 20 * PctScale THEN <<"warning">> ELSE << >>)
    \o (IF a.YearlyStepUp > 25 * PctScale THEN <<"warning">> ELSE << >>)
    \o (IF 10 * a.FundExpenseRatio > 25 * PctScale THEN <<"warning">> ELSE << >>)

\* Lines 190-219: validation, warnings, the rates and the start of the
\* final-corpus loop.
Validate ==
    /\ pc = "validate"
    /\ IF ValidationError(run) # ""
       THEN /\ err' = ValidationError(run)
            /\ pc' = "error"
            /\ UNCHANGED <<loc, fc, out>>
       ELSE LET NetReturn == run.ExpectedReturnPercent - run.FundExpenseRatio - run.TaxOnGains
                MonthlyReturn == MonthlyRateOf(NetReturn)
                TotalMonths == TotalMonthsOf(run.InvestmentYears)
            IN  /\ loc' = [NetReturn |-> NetReturn, MonthlyReturn |-> MonthlyReturn,
                           TotalMonths |-> TotalMonths]
                /\ fc' = [FinalCorpus |->
                              IF TotalMonths > 0
                              THEN MulS(run.StartingLumpsum,
                                        PowS(One + MonthlyReturn, TotalMonths))
                              ELSE run.StartingLumpsum,
                          TotalAmountInvested |-> run.StartingLumpsum,
                          TotalStepUpAmount |-> 0,
                          MonthlySip |-> run.MonthlyInvestment,
                          Month |-> 0]
                /\ out' = out \o Warnings(run)
                /\ pc' = "corpus"
                /\ err' = err
    /\ UNCHANGED <<inp, run, srch, xr, bd, rt, call, ret>>

\* One iteration of the final-corpus loop, lines 221-229.
FinalCorpusStep ==
    /\ pc = "corpus"
    /\ fc.Month < loc.TotalMonths
    /\ LET MonthsRemaining == loc.TotalMonths - fc.Month
           stepUp == IsStepUpMonth(fc.Month, loc.TotalMonths)
       IN  fc' = [FinalCorpus |-> fc.FinalCorpus
                      + MulS(fc.MonthlySip, PowS(One + loc.MonthlyReturn, MonthsRemaining)),
                  TotalAmountInvested |-> fc.TotalAmountInvested + fc.MonthlySip,
                  TotalStepUpAmount |->
                      IF stepUp
                      THEN fc.TotalStepUpAmount + PctOf(fc.MonthlySip, run.YearlyStepUp) * 12
                      ELSE fc.TotalStepUpAmount,
                  MonthlySip |->
                      IF stepUp THEN StepUp(fc.MonthlySip, run.YearlyStepUp)
                      ELSE fc.MonthlySip,
                  Month |-> fc.Month + 1]
    /\ UNCHANGED <<pc, inp, run, srch, loc, xr, bd, rt, out, err, call, ret>>

\* Lines 231-239: the final corpus is complete; the XIRR cashflows start
\* with the lumpsum paid today.  Dates are offsets from today in sixteenths
\* of a day.
FinalCorpusDone ==
    /\ pc = "corpus"
    /\ fc.Month >= loc.TotalMonths
    /\ xr' = [Cashflows |-> <<-run.StartingLumpsum>>, Dates |-> <<0>>,
              CurrentSip |-> run.MonthlyInvestment, Month |-> 0]
    /\ pc' = "xirr"
    /\ UNCHANGED <<inp, run, srch, loc, fc, bd, rt, out, err, call, ret>>

\* timedelta(days=30.4375) in sixteenths of a day.
MonthLength == 487

\* One iteration of the cashflow loop, lines 241-247.
CashflowStep ==
    /\ pc = "xirr"
    /\ xr.Month < loc.TotalMonths
    /\ xr' = [Cashflows |-> Append(xr.Cashflows, -xr.CurrentSip),
              Dates |-> Append(xr.Dates, xr.Dates[Len(xr.Dates)] + MonthLength),
              CurrentSip |->
                  IF IsStepUpMonth(xr.Month, loc.TotalMonths)
                  THEN StepUp(xr.CurrentSip, run.YearlyStepUp)
                  ELSE xr.CurrentSip,
              Month |-> xr.Month + 1]
    /\ UNCHANGED <<pc, inp, run, srch, loc, fc, bd, rt, out, err, call, ret>>

\* Lines 249-271: the final corpus closes the cashflows (the two XIRR values
\* and the CAGR computed from them go to the summary only), and the
\* breakdown loop starts.
CashflowDone ==
    /\ pc = "xirr"
    /\ xr.Month >= loc.TotalMonths
    /\ xr' = [xr EXCEPT !.Cashflows = Append(@, fc.FinalCorpus),
                        !.Dates = Append(@, @[Len(@)] + MonthLength)]
    /\ bd' = [CurrentBalance |-> run.StartingLumpsum,
              TotalInvestedSoFar |-> run.StartingLumpsum,
              CurrentSip |-> run.MonthlyInvestment,
              CumulativeGains |-> 0,
              MonthNum |-> 0,
              MonthlyBreakdown |-> << >>,
              YearlyProgress |-> << >>,
              GainsExceedInvestmentYear |-> 0,
              GainsExceedInvestmentMonth |-> 0]
    /\ pc' = "breakdown"
    /\ UNCHANGED <<inp, run, srch, loc, fc, rt, out, err, call, ret>>

\* The wealth phase with 3 counted into the acceleration phase.
WealthPhaseOfInclusive(GainsToInvestmentRatio) ==
    IF GainsToInvestmentRatio < One THEN "Building Phase"
    ELSE IF GainsToInvestmentRatio <= 3 * One THEN "Acceleration Phase"
    ELSE "Compounding Phase"

\* Lines 311-319: the wealth phase of a gains-to-investment ratio (One-ths).
WealthPhaseOf(GainsToInvestmentRatio) ==
    IF GainsToInvestmentRatio < One THEN "Building Phase"
    ELSE IF GainsToInvestmentRatio < 3 * One THEN "Acceleration Phase"
    ELSE "Compounding Phase"

\* Lines 308-309: (CurrentBalance - TotalInvestedSoFar) / TotalInvestedSoFar.
GainsToInvestmentRatioOf(CurrentBalance, TotalInvestedSoFar) ==
    IF TotalInvestedSoFar > 0
    THEN DivS(CurrentBalance - TotalInvestedSoFar, TotalInvestedSoFar)
    ELSE 0

\* The sum of a field over the rows of one year of the monthly breakdown.
RECURSIVE SumYear(_, _, _, _)
SumYear(rows, Year, UseGain, n) ==
    IF n = 0 THEN 0
    ELSE SumYear(rows, Year, UseGain, n - 1)
         + (IF rows[n].Year = Year
            THEN (IF UseGain THEN rows[n].MonthlyGain ELSE rows[n].SIPAmount)
            ELSE 0)

\* One iteration of the breakdown loop, lines 273-355.  Years and months
\* are those of the source; 0 stands for None in the milestone fields.  The
\* columns computed with a fractional power (the CAGRs and the
\* inflation-adjusted table) are not kept.
BreakdownStep ==
    /\ pc = "breakdown"
    /\ bd.MonthNum < loc.TotalMonths
    /\ LET MonthNum == bd.MonthNum
           Year == (MonthNum \div 12) + 1
           MonthInYear == (MonthNum % 12) + 1
           MonthlyGain == MulS(bd.CurrentBalance, loc.MonthlyReturn)
           CurrentBalance == bd.CurrentBalance + MonthlyGain + bd.CurrentSip
           TotalInvestedSoFar == bd.TotalInvestedSoFar + bd.CurrentSip
           CumulativeGains == bd.CumulativeGains + MonthlyGain
           row == [Year |-> Year,
                   Month |-> MonthInYear,
                   SIPAmount |-> RoundUnit(bd.CurrentSip),
                   BalanceBeforeSIP |-> RoundUnit(CurrentBalance - bd.CurrentSip),
                   MonthlyGain |-> RoundUnit(MonthlyGain),
                   BalanceAfterSIP |-> RoundUnit(CurrentBalance),
                   TotalInvestedSoFar |-> RoundUnit(TotalInvestedSoFar),
                   TotalGainsSoFar |-> RoundUnit(CumulativeGains)]
           MonthlyBreakdown == Append(bd.MonthlyBreakdown, row)
           milestone == CumulativeGains > TotalInvestedSoFar
                        /\ bd.GainsExceedInvestmentYear = 0
           GainsExceedInvestmentYear ==
               IF milestone THEN Year ELSE bd.GainsExceedInvestmentYear
           yearEnd == MonthInYear = 12 \/ MonthNum = loc.TotalMonths - 1
           GainsToInvestmentRatio ==
               GainsToInvestmentRatioOf(CurrentBalance, TotalInvestedSoFar)
           yearRow == [Year |-> Year,
                       StartingSIP |-> RoundUnit(MulS(run.MonthlyInvestment,
                                           PowS(One + PctFrac(run.YearlyStepUp), Year - 1))),
                       InvestedThisYear |-> SumYear(MonthlyBreakdown, Year, FALSE,
                                                    Len(MonthlyBreakdown)),
                       TotalInvested |-> RoundUnit(TotalInvestedSoFar),
                       BalanceAtYearStart |->
                           IF Year = 1 THEN RoundUnit(run.StartingLumpsum)
                           ELSE bd.YearlyProgress[Len(bd.YearlyProgress)].BalanceAtYearEnd,
                       GainsThisYear |-> SumYear(MonthlyBreakdown, Year, TRUE,
                                                 Len(MonthlyBreakdown)),
                       BalanceAtYearEnd |-> RoundUnit(CurrentBalance),
                       TotalGains |-> RoundUnit(CumulativeGains),
                       WealthPhase |-> WealthPhaseOf(GainsToInvestmentRatio),
                       CompoundingMilestone |-> GainsExceedInvestmentYear = Year]
       IN  bd' = [CurrentBalance |-> CurrentBalance,
                  TotalInvestedSoFar |-> TotalInvestedSoFar,
                  CurrentSip |->
                      IF MonthInYear = 12 /\ MonthNum < loc.TotalMonths - 1
                      THEN StepUp(bd.CurrentSip, run.YearlyStepUp)
                      ELSE bd.CurrentSip,
                  CumulativeGains |-> CumulativeGains,
                  MonthNum |-> MonthNum + 1,
                  MonthlyBreakdown |-> MonthlyBreakdown,
                  YearlyProgress |->
                      IF yearEnd THEN Append(bd.YearlyProgress, yearRow)
                      ELSE bd.YearlyProgress,
                  GainsExceedInvestmentYear |-> GainsExceedInvestmentYear,
                  GainsExceedInvestmentMonth |->
                      IF milestone THEN MonthInYear ELSE bd.GainsExceedInvestmentMonth]
    /\ UNCHANGED <<pc, inp, run, srch, loc, fc, xr, rt, out, err, call, ret>>

\* Lines 358-363: the breakdown is complete; SimulateRetirementWithdrawals
\* is called on the last balance.
BreakdownDone ==
    /\ pc = "breakdown"
    /\ bd.MonthNum >= loc.TotalMonths
    /\ rt' = RetireStart(bd.CurrentBalance, run.WithdrawalRateInRetirement,
                         run.InflationRate, run.ReturnAfterRetirement, DefaultMaxYears)
    /\ pc' = "retire"
    /\ UNCHANGED <<inp, run, srch, loc, fc, xr, bd, out, err, call, ret>>

\* One year of SimulateRetirementWithdrawals, lines 151-167.
RetireStep ==
    /\ pc = "retire"
    /\ rt.Year < rt.MaxYears
    /\ ~rt.stopped
    /\ rt' = RetireYear(rt)
    /\ UNCHANGED <<pc, inp, run, srch, loc, fc, xr, bd, out, err, call, ret>>

\* SimulateRetirementWithdrawals returns, line 169.
RetireDone ==
    /\ pc = "retire"
    /\ ~(rt.Year < rt.MaxYears /\ ~rt.stopped)
    /\ pc' = "summary"
    /\ UNCHANGED <<inp, run, srch, loc, fc, xr, bd, rt, out, err, call, ret>>

\* Lines 365-423: the summary is printed and the result returned.
Summary ==
    /\ pc = "summary"
    /\ out' = Append(out, "summary")
    /\ pc' = "done"
    /\ UNCHANGED <<inp, run, srch, loc, fc, xr, bd, rt, err, call, ret>>

RunSipCalculation ==
    \/ Validate
    \/ FinalCorpusStep
    \/ FinalCorpusDone
    \/ CashflowStep
    \/ CashflowDone
    \/ BreakdownStep
    \/ BreakdownDone
    \/ RetireStep
    \/ RetireDone
    \/ Summary

(***************************************************************************)
(* The calls the model explores.                                           *)
(***************************************************************************)

\* The longest investment period explored, in whole years.
MaxRunYears == 2

Units(u) == u * MoneyScale

\* The shortest InvestmentYears with int(InvestmentYears * 12) = k.
YearsOfMonths(k) == (k * YearScale + 11) \div 12

EntryPoints == {"simple", "goal", "timeline"}

BaseCall == [EntryPoint |-> "simple", MonthlyInvestment |-> Units(1000),
            ExpectedReturnPercent |-> 120, InvestmentYears |-> 2 * YearScale,
            FundExpenseRatio |-> 5, YearlyStepUp |-> 100, InflationRate |-> 60,
            TaxOnGains |-> 0, StartingLumpsum |-> Units(5000),
            HasTarget |-> TRUE, TargetCorpus |-> Units(50000),
            WithdrawalRateInRetirement |-> 40, ReturnAfterRetirement |-> 70]

\* Durations: negative, zero, positive but shorter than a month, and one
\* month short of, exactly at and one month past each whole year.
RunYears ==
    {-YearScale, 0, YearScale \div 20}
    \cup {YearsOfMonths(12 * y + d) : y \in 1..MaxRunYears, d \in {-1, 0, 1}}

\* SimpleSipCalculator is explored on every duration and contribution; the
\* goal-based entry points, whose searches are long, on fewer calls.  A
\* negative contribution is left out for TimeLineBaseSipCalculator: its
\* search then runs to 80 years, out of the range of the model's integers.
RunInputs ==
    {[BaseCall EXCEPT !.InvestmentYears = y, !.MonthlyInvestment = m, !.YearlyStepUp = s] :
        y \in RunYears, m \in {-Units(1000), 0, Units(1000)}, s \in {0, 100}}
    \cup {[BaseCall EXCEPT !.EntryPoint = "goal", !.InvestmentYears = y,
                          !.MonthlyInvestment = m] :
        y \in {-YearScale, 0, YearScale}, m \in {-Units(1000), Units(1000)}}
    \cup {[BaseCall EXCEPT !.EntryPoint = "timeline", !.InvestmentYears = y] :
        y \in {-YearScale, 0, YearScale}}
    \cup {[BaseCall EXCEPT !.EntryPoint = e, !.InvestmentYears = YearScale,
                          !.StartingLumpsum = l] :
        e \in EntryPoints, l \in {-Units(100), 0}}
    \cup {[BaseCall EXCEPT !.EntryPoint = e, !.ExpectedReturnPercent = 3] :
        e \in EntryPoints}
    \cup {[BaseCall EXCEPT !.EntryPoint = e, !.HasTarget = FALSE] : e \in EntryPoints}
    \cup {[BaseCall EXCEPT !.EntryPoint = e, !.TargetCorpus = 0] : e \in EntryPoints}
    \cup {[BaseCall EXCEPT !.YearlyStepUp = 300, !.FundExpenseRatio = 30]}
    \cup {[BaseCall EXCEPT !.WithdrawalRateInRetirement = w] : w \in {0, 200}}
    \cup {[BaseCall EXCEPT !.ExpectedReturnPercent = 4095000, !.FundExpenseRatio = 0,
                          !.StartingLumpsum = Units(100), !.MonthlyInvestment = m,
                          !.InvestmentYears = YearsOfMonths(k)] :
        m \in {0, Units(100)}, k \in 1..3}

Init ==
    /\ pc = "entry"
    /\ inp \in RunInputs
    /\ run = NoInp
    /\ srch = NoSrch
    /\ loc = NoLoc
    /\ fc = NoFc
    /\ xr = NoXr
    /\ bd = NoBd
    /\ rt = NoRt
    /\ out = << >>
    /\ err = ""
    /\ call = NoCall
    /\ ret = NoCall

Next ==
    \/ SimpleSipCalculator
    \/ GoalBaseSipCalculator
    \/ FindRequiredMonthlySipStep
    \/ GoalBaseSipCalculatorRun
    \/ TimeLineBaseSipCalculator
    \/ FindRequiredYearsStep
    \/ TimeLineBaseSipCalculatorRun
    \/ RunSipCalculation

Spec == Init /\ [][Next]_vars

(***************************************************************************)
(* Properties of the entry points and of RunSipCalculation, under Spec.    *)
(***************************************************************************)

\* The places of RunSipCalculation from which the final-corpus loop, the
\* cashflow loop and the breakdown loop have started.
InCorpus == pc \in {"corpus", "xirr", "breakdown", "retire", "summary", "done"}

InCashflows == pc \in {"xirr", "breakdown", "retire", "summary", "done"}

InBreakdown == pc \in {"breakdown", "retire", "summary", "done"}

AfterBreakdown == pc \in {"retire", "summary", "done"}

\* The input is one the specification calls invalid.
InvalidInput(a) ==
    \/ a.InvestmentYears <= 0
    \/ a.MonthlyInvestment < 0
    \/ a.StartingLumpsum < 0
    \/ a.ExpectedReturnPercent - a.FundExpenseRatio - a.TaxOnGains <= 0
    \/ (a.EntryPoint \in {"goal", "timeline"} /\ (~a.HasTarget \/ a.TargetCorpus <= 0))

\* Nothing of the projection has run or been reported: no goal-search
\* iteration, no month of any loop, no year of the drawdown, and neither the
\* required contribution or duration nor the summary printed.
NothingRun ==
    /\ srch.iter = 0
    /\ fc.Month = 0 /\ xr.Month = 0 /\ bd.MonthNum = 0 /\ rt.Year = 0
    /\ \A i \in 1..Len(out) : out[i] \notin {"required", "summary"}

\* C1: on an invalid input the call ends in the fatal error, and nothing of
\* the projection has run or been reported when it is raised.
C1_InvalidInputFailsBeforeAnyWork ==
    InvalidInput(inp) => (pc # "done" /\ NothingRun)

\* b * (1 + pct/100), k times over.
RECURSIVE StepUpTimes(_, _, _)
StepUpTimes(base, pct, k) ==
    IF k = 0 THEN base ELSE StepUp(StepUpTimes(base, pct, k - 1), pct)

\* The contribution of month m (1-based): base * (1 + pct/100)^floor((m-1)/12).
ContributionOfMonth(base, pct, m) == StepUpTimes(base, pct, (m - 1) \div 12)

\* The contributions of the months 1..m together.
RECURSIVE SumContributions(_, _, _)
SumContributions(base, pct, m) ==
    IF m <= 0 THEN 0
    ELSE SumContributions(base, pct, m - 1) + ContributionOfMonth(base, pct, m)

\* The balance after m months when each month first adds one month of
\* interest on the previous balance and then that month's contribution.
RECURSIVE InterestThenContribution(_, _, _, _, _)
InterestThenContribution(lumpsum, base, pct, rate, m) ==
    IF m <= 0 THEN lumpsum
    ELSE LET prev == InterestThenContribution(lumpsum, base, pct, rate, m - 1)
         IN  prev + MulS(prev, rate) + ContributionOfMonth(base, pct, m)

\* Two amounts agree up to the truncation of the fixed-point arithmetic:
\* less than one currency unit for each month and one for the lumpsum.
Close(a, b, months) == Abs(a - b) <= MoneyScale * (months + 1)

\* C2: the final corpus equals the balance obtained from the lumpsum by
\* adding, month after month, first the interest and then the contribution.
C2_FinalCorpusIsInterestThenContribution ==
    InCashflows =>
        Close(fc.FinalCorpus,
              InterestThenContribution(run.StartingLumpsum, run.MonthlyInvestment,
                                       run.YearlyStepUp, loc.MonthlyReturn,
                                       loc.TotalMonths),
              loc.TotalMonths)

\* For comparison: without contributions the two balances do agree, and the
\* breakdown loop always computes the interest-then-contribution balance.
LumpsumOnlyAgrees ==
    (InCashflows /\ run.MonthlyInvestment = 0) =>
        Close(fc.FinalCorpus,
              InterestThenContribution(run.StartingLumpsum, 0, run.YearlyStepUp,
                                       loc.MonthlyReturn, loc.TotalMonths),
              loc.TotalMonths)

BreakdownIsInterestThenContribution ==
    InBreakdown =>
        bd.CurrentBalance =
            InterestThenContribution(run.StartingLumpsum, run.MonthlyInvestment,
                                     run.YearlyStepUp, loc.MonthlyReturn, bd.MonthNum)

\* C12: within one run the Final Corpus of the summary equals, before
\* rounding, the balance after contribution of the last record of the monthly
\* breakdown, and that value is the starting corpus of the retirement
\* simulation.
C12_FinalCorpusIsLastBalanceAndRetirementCorpus ==
    (AfterBreakdown /\ Len(bd.MonthlyBreakdown) > 0) =>
        /\ bd.MonthlyBreakdown[Len(bd.MonthlyBreakdown)].BalanceAfterSIP
               = RoundUnit(bd.CurrentBalance)
        /\ Close(fc.FinalCorpus, bd.CurrentBalance, loc.TotalMonths)
        /\ rt.RetirementCorpus = bd.CurrentBalance

\* For comparison: the retirement simulation does start from the balance of
\* the last record, and without contributions the Final Corpus agrees with
\* it.
RetirementStartsAtLastBalance ==
    (AfterBreakdown /\ Len(bd.MonthlyBreakdown) > 0) =>
        /\ bd.MonthlyBreakdown[Len(bd.MonthlyBreakdown)].BalanceAfterSIP
               = RoundUnit(bd.CurrentBalance)
        /\ rt.RetirementCorpus = bd.CurrentBalance
        /\ run.MonthlyInvestment = 0 =>
               Close(fc.FinalCorpus, bd.CurrentBalance, loc.TotalMonths)

\* The contribution a loop holds once it has closed `done` months: that of
\* the next month, or of the last month once the loop has ended.
SipAfter(done) ==
    IF loc.TotalMonths <= 0 THEN run.MonthlyInvestment
    ELSE ContributionOfMonth(run.MonthlyInvestment, run.YearlyStepUp,
                             Min(done + 1, loc.TotalMonths))

YearJustClosed ==
    /\ pc = "breakdown"
    /\ bd.MonthNum > 0
    /\ (bd.MonthNum % 12 = 0 \/ bd.MonthNum = loc.TotalMonths)
    /\ bd.TotalInvestedSoFar > 0

LastPhase == bd.YearlyProgress[Len(bd.YearlyProgress)].WealthPhase

Gains == bd.CurrentBalance - bd.TotalInvestedSoFar

\* C9 as amended: with r = (balance - invested) / invested at the year's
\* end, r < 1 gives the building phase, 1 <= r < 3 the acceleration phase
\* and r >= 3 the compounding phase.
C9_PhaseThresholds ==
    YearJustClosed =>
        /\ LastPhase = "Building Phase" <=> Gains < bd.TotalInvestedSoFar
        /\ LastPhase = "Acceleration Phase" <=>
               (Gains >= bd.TotalInvestedSoFar /\ Gains < 3 * bd.TotalInvestedSoFar)
        /\ LastPhase = "Compounding Phase" <=> Gains >= 3 * bd.TotalInvestedSoFar

\* C9 as stated: r from 1 to 3 inclusive gives the acceleration phase and
\* only r above 3 the compounding phase.
C9_PhaseThresholdsInclusive ==
    YearJustClosed =>
        /\ LastPhase = "Building Phase" <=> Gains < bd.TotalInvestedSoFar
        /\ LastPhase = "Acceleration Phase" <=>
               (Gains >= bd.TotalInvestedSoFar /\ Gains <= 3 * bd.TotalInvestedSoFar)
        /\ LastPhase = "Compounding Phase" <=> Gains > 3 * bd.TotalInvestedSoFar

\* A year closes with r = 3 exactly and is labelled compounding.
C9_Witness ==
    /\ YearJustClosed
    /\ Gains = 3 * bd.TotalInvestedSoFar
    /\ LastPhase = "Compounding Phase"

\* Years close in each of the three phases.
AllPhasesSeen(p) == YearJustClosed /\ LastPhase = p

(***************************************************************************)
(* SimulateRetirementWithdrawals called on its own.                        *)
(***************************************************************************)

\* The longest horizon (MaxYears) explored.
MaxHorizon == 6

InitRetire ==
    /\ pc = "retire"
    /\ \E corpus \in {-Units(100), 0, Units(1000), Units(100000)},
          w \in {0, 40, 200, 300, 1200},
          infl \in {0, 60},
          r \in {-1000, -50, 0, 30, 70},
          maxYears \in 0..MaxHorizon :
            rt = RetireStart(corpus, w, infl, r, maxYears)
    /\ inp = NoInp
    /\ run = NoInp
    /\ srch = NoSrch
    /\ loc = NoLoc
    /\ fc = NoFc
    /\ xr = NoXr
    /\ bd = NoBd
    /\ out = << >>
    /\ err = ""
    /\ call = NoCall
    /\ ret = NoCall

NextRetire ==
    \/ RetireStep
    \/ RetireDone

SpecRetire == InitRetire /\ [][NextRetire]_vars

\* The corpus at the end of year y: the corpus of the year before grown by
\* the return rate, minus the first withdrawal indexed by y - 1 years of
\* inflation.
RECURSIVE CorpusAtEndOf(_)
CorpusAtEndOf(y) ==
    IF y = 0 THEN rt.RetirementCorpus
    ELSE LET start == CorpusAtEndOf(y - 1)
         IN  start + PctOf(start, rt.InvestmentReturn)
             - MulS(PctOf(rt.RetirementCorpus, rt.WithdrawalRate),
                    PowS(One + rt.Inflation, y - 1))

\* C6: the drawdown holds one record for each year 1..k in order, no record
\* follows a year that ended with a corpus <= 0, and on return k is the
\* first such year (years-lasted k - 1) or, if there is none, the horizon
\* (years-lasted the horizon).
C6_StopsAtFirstExhaustedYear ==
    LET k == Len(rt.YearlyData)
    IN  /\ k = rt.Year
        /\ k <= rt.MaxYears
        /\ \A i \in 1..k : rt.YearlyData[i].Year = i
        /\ \A i \in 1..(k - 1) : CorpusAtEndOf(i) > 0
        /\ pc = "summary" =>
              IF k > 0 /\ CorpusAtEndOf(k) <= 0
              THEN rt.YearsMoneyLasts = k - 1
              ELSE k = rt.MaxYears /\ rt.YearsMoneyLasts = rt.MaxYears

\* The drawdown has returned after the corpus ran out in year 3 of a longer
\* horizon.
C6_Witness ==
    /\ pc = "summary"
    /\ Len(rt.YearlyData) = 3
    /\ rt.MaxYears > 3
    /\ rt.YearsMoneyLasts = 2
    /\ rt.RemainingCorpus <= 0

\* What C5 says of one step of a drawdown: a simulated year ends with more
\* than it started with and counts as a year the money lasted, and the
\* drawdown returns only at the horizon, with years-lasted equal to it.
NeverDepletedStep ==
    /\ rt'.Year = rt.Year + 1 =>
          /\ rt'.RemainingCorpus > rt.RemainingCorpus
          /\ rt'.YearsMoneyLasts = rt'.Year
          /\ ~rt'.stopped
    /\ pc' = "summary" =>
          /\ rt.Year = rt.MaxYears
          /\ rt.YearsMoneyLasts = rt.MaxYears

\* C5 as stated: with withdrawal rate 0% the corpus is never depleted, for
\* any starting corpus, inflation, return and horizon.
C5_ZeroWithdrawalNeverDepletes ==
    [][(pc = "retire" /\ rt.WithdrawalRate = 0) => NeverDepletedStep]_vars

\* C5 as amended: with withdrawal rate 0%, a starting corpus > 0 and a
\* post-retirement return > 0, the corpus is never depleted.
C5_ZeroWithdrawalNeverDepletesPositive ==
    [][(pc = "retire" /\ rt.WithdrawalRate = 0 /\ rt.RetirementCorpus > 0
            /\ rt.InvestmentReturn > 0)
        => NeverDepletedStep]_vars

\* A drawdown without withdrawals, from a positive corpus at a positive
\* return, has returned after a horizon of at least three years.
C5_Witness ==
    /\ pc = "summary"
    /\ rt.WithdrawalRate = 0
    /\ rt.RetirementCorpus > 0
    /\ rt.InvestmentReturn > 0
    /\ rt.MaxYears >= 3
    /\ rt.YearsMoneyLasts = rt.MaxYears
    /\ rt.RemainingCorpus > rt.RetirementCorpus

(***************************************************************************)
(* CalculateFutureValue called on its own, on two argument lists of which  *)
(* the second has a larger contribution, duration or return rate.          *)
(***************************************************************************)

\* CalculateFutureValue on the arguments held in a record of inputs.
FutureValueOf(p) ==
    CalculateFutureValue(p.MonthlyInvestment, p.ExpectedReturnPercent,
                         p.InvestmentYears, p.YearlyStepUp, p.FundExpenseRatio,
                         p.TaxOnGains, p.StartingLumpsum)

\* The checks of RunSipCalculation on what CalculateFutureValue is given.
PassesValidation(p) ==
    /\ p.InvestmentYears > 0
    /\ p.MonthlyInvestment >= 0
    /\ p.StartingLumpsum >= 0
    /\ p.ExpectedReturnPercent - p.FundExpenseRatio - p.TaxOnGains > 0

FvInputs ==
    {[BaseCall EXCEPT !.MonthlyInvestment = m, !.ExpectedReturnPercent = r,
                      !.InvestmentYears = y, !.YearlyStepUp = s,
                      !.StartingLumpsum = l] :
        m \in {-Units(1000), 0, Units(1000), Units(2500)},
        r \in {60, 120},
        y \in {YearScale \div 20} \cup {YearsOfMonths(k) : k \in {1, 11, 12, 13, 24, 25}},
        s \in {-3000, -1000, -500, 0, 100, 1500},
        l \in {0, Units(5000)}}

\* The second argument list: one of the three changed, the rest the same.
Larger(p, vary) ==
    CASE vary = "contribution" -> {[p EXCEPT !.MonthlyInvestment = @ + Units(500)]}
      [] vary = "duration" -> {[p EXCEPT !.InvestmentYears = @ + d] :
                                   d \in {YearsOfMonths(1), YearScale}}
      [] vary = "rate" -> {[p EXCEPT !.ExpectedReturnPercent = @ + 5]}

InitFV ==
    /\ pc = "call"
    /\ \E p \in FvInputs, vary \in {"contribution", "duration", "rate"} :
         \E q \in Larger(p, vary) :
            call = [fn |-> "CalculateFutureValue", vary |-> vary, args |-> <<p, q>>]
    /\ ret = [fn |-> "CalculateFutureValue", values |-> << >>]
    /\ inp = NoInp
    /\ run = NoInp
    /\ srch = NoSrch
    /\ loc = NoLoc
    /\ fc = NoFc
    /\ xr = NoXr
    /\ bd = NoBd
    /\ rt = NoRt
    /\ out = << >>
    /\ err = ""

\* One call of CalculateFutureValue, on the next argument list.
CallCalculateFutureValue ==
    /\ pc = "call"
    /\ call.fn = "CalculateFutureValue"
    /\ ret' = [ret EXCEPT !.values =
                   Append(@, FutureValueOf(call.args[Len(ret.values) + 1]))]
    /\ pc' = IF Len(ret.values) + 1 = Len(call.args) THEN "returned" ELSE "call"
    /\ UNCHANGED <<inp, run, srch, loc, fc, xr, bd, rt, out, err, call>>

NextFV == CallCalculateFutureValue

SpecFV == InitFV /\ [][NextFV]_vars

BothCallsReturned ==
    /\ pc = "returned"
    /\ call.fn = "CalculateFutureValue"
    /\ PassesValidation(call.args[1])
    /\ PassesValidation(call.args[2])

\* C3 as stated: for argument lists that pass validation, a larger monthly
\* contribution, duration or net return rate never gives a smaller future
\* value.
C3_FutureValueMonotone ==
    BothCallsReturned => ret.values[1] <= ret.values[2]

\* C3 as amended: the same, for a yearly step-up of -100% or more.
C3_FutureValueMonotoneStepUp ==
    (BothCallsReturned /\ call.args[1].YearlyStepUp >= -100 * PctScale)
        => ret.values[1] <= ret.values[2]

\* A plan of over a year with a positive step-up was extended and its future
\* value grew.
C3_Witness ==
    /\ BothCallsReturned
    /\ call.vary = "duration"
    /\ call.args[1].YearlyStepUp > 0
    /\ call.args[1].MonthlyInvestment > 0
    /\ TotalMonthsOf(call.args[1].InvestmentYears) > 12
    /\ ret.values[1] < ret.values[2]

(***************************************************************************)
(* FindRequiredMonthlySip called on its own and its result fed back into   *)
(* CalculateFutureValue.                                                   *)
(***************************************************************************)

GoalInputs ==
    {[BaseCall EXCEPT !.EntryPoint = "none", !.TargetCorpus = t,
                      !.InvestmentYears = y, !.YearlyStepUp = s,
                      !.StartingLumpsum = l] :
        t \in {Units(1000), Units(20000), Units(50000), Units(100000)},
        y \in {YearScale \div 20, YearsOfMonths(1), YearScale, 2 * YearScale},
        s \in {-3000, -500, 100},
        l \in {0, Units(5000)}}

InitGoal ==
    /\ pc = "sip_search"
    /\ inp \in GoalInputs
    /\ srch = [Low |-> 0, High |-> inp.TargetCorpus * 2, Mid |-> 0, iter |-> 0]
    /\ call = [fn |-> "FindRequiredMonthlySip"]
    /\ ret = NoCall
    /\ run = NoInp
    /\ loc = NoLoc
    /\ fc = NoFc
    /\ xr = NoXr
    /\ bd = NoBd
    /\ rt = NoRt
    /\ out = << >>
    /\ err = ""

\* FindRequiredMonthlySip returns round(Mid, 0), and CalculateFutureValue is
\* called with it and the arguments of the search.
FindRequiredMonthlySipReturn ==
    /\ pc = "sip_search"
    /\ call.fn = "FindRequiredMonthlySip"
    /\ srch.iter = SearchIterations
    /\ ret' = [fn |-> "FindRequiredMonthlySip",
               RequiredMonthly |-> RoundUnit(srch.Mid),
               FutureValue |->
                   FutureValueOf([inp EXCEPT !.MonthlyInvestment = RoundUnit(srch.Mid)])]
    /\ pc' = "returned"
    /\ UNCHANGED <<inp, run, srch, loc, fc, xr, bd, rt, out, err, call>>

NextGoal ==
    \/ FindRequiredMonthlySipStep
    \/ FindRequiredMonthlySipReturn

SpecGoal == InitGoal /\ [][NextGoal]_vars

SipFedBack ==
    /\ pc = "returned"
    /\ call.fn = "FindRequiredMonthlySip"
    /\ inp.TargetCorpus > 0
    /\ PassesValidation([inp EXCEPT !.MonthlyInvestment = 0])

\* |FutureValue - Target| / Target <= 0.5%
WithinHalfPercent == Abs(ret.FutureValue - inp.TargetCorpus) <= inp.TargetCorpus \div 200

ExampleCall ==
    [EntryPoint |-> "simple", MonthlyInvestment |-> Units(10000),
     ExpectedReturnPercent |-> 120, InvestmentYears |-> 20 * YearScale,
     FundExpenseRatio |-> 5, YearlyStepUp |-> 100, InflationRate |-> 60,
     TaxOnGains |-> 0, StartingLumpsum |-> Units(50000),
     HasTarget |-> FALSE, TargetCorpus |-> 0,
     WithdrawalRateInRetirement |-> 40, ReturnAfterRetirement |-> 70]

InitExample ==
    /\ pc = "entry"
    /\ inp = ExampleCall
    /\ run = NoInp
    /\ srch = NoSrch
    /\ loc = NoLoc
    /\ fc = NoFc
    /\ xr = NoXr
    /\ bd = NoBd
    /\ rt = NoRt
    /\ out = << >>
    /\ err = ""
    /\ call = NoCall
    /\ ret = NoCall

NextExample ==
    \/ SimpleSipCalculator
    \/ Validate
    \/ FinalCorpusStep
    \/ FinalCorpusDone

SpecExample == InitExample /\ [][NextExample]_vars

\* The final-corpus loop of the example has run all its 240 months.
ExampleCorpusDone ==
    /\ pc = "xirr"
    /\ run = ExampleCall
    /\ fc.Month = 240

\* C10 as stated: the final balance of the example lies between 9,000,000
\* and 11,000,000 currency units.
C10_ExampleBalanceAbout10M ==
    ExampleCorpusDone =>
        (Units(9000000) <= fc.FinalCorpus /\ fc.FinalCorpus <= Units(11000000))

\* C10 as amended: the final balance of the example lies between 18,000,000
\* and 18,500,000 currency units.
C10_ExampleBalanceAbout18M ==
    ExampleCorpusDone =>
        (Units(18000000) <= fc.FinalCorpus /\ fc.FinalCorpus <= Units(18500000))

\* The example has been computed: 240 months at a net 11.5% from a lumpsum
\* of 50,000, the contribution stepped up 19 times.
C10_Witness ==
    /\ ExampleCorpusDone
    /\ loc.NetReturn = 115
    /\ loc.TotalMonths = 240
    /\ fc.MonthlySip > Units(60000)
    /\ fc.FinalCorpus > fc.TotalAmountInvested

(***************************************************************************)
(* CalculateReturns called on its own.                                     *)
(*                                                                         *)
(* Its floats are modelled as floats of 30 significant bits: [m, e] is     *)
(* m * 2^e with 2^29 <= |m| < 2^30, or m = 0, and every operation          *)
(* truncates its result to that form.  The exponent range is that of the   *)
(* floats of the program: ** raises OverflowError from 2^1024 and gives    *)
(* 0.0 below 2^-1075.  Dates are offsets from an origin in units of 1461   *)
(* days, so that days / 365.25 is the whole number 4 * offset and ** is    *)
(* repeated multiplication; the dates of a series do not precede its       *)
(* first.                                                                  *)
(***************************************************************************)

FHalf == 2^15

FTop == FHalf * FHalf

\* r = [m, e] with its mantissa shifted up by k bits if that leaves it
\* below 2^30.
FShiftUp(r, k) ==
    IF Abs(r.m) < 2^(30 - k) THEN [m |-> r.m * 2^k, e |-> r.e - k] ELSE r

\* m * 2^e with its mantissa brought into 2^29 .. 2^30 (|m| < 2^31).
FNormal(m, e) ==
    IF m = 0 THEN [m |-> 0, e |-> 0]
    ELSE IF Abs(m) >= FTop THEN [m |-> TruncDiv(m, 2), e |-> e + 1]
    ELSE FShiftUp(FShiftUp(FShiftUp(FShiftUp(FShiftUp([m |-> m, e |-> e], 16), 8), 4), 2), 1)

\* float(n) of an integer n.
FromInt(n) == FNormal(n, 0)

FNeg(a) == [m |-> -a.m, e |-> a.e]

FAbs(a) == [m |-> Abs(a.m), e |-> a.e]

FShift(m, d) == IF d > 30 THEN 0 ELSE TruncDiv(m, 2^d)

\* a + b
FAdd(a, b) ==
    IF a.m = 0 THEN b
    ELSE IF b.m = 0 THEN a
    ELSE IF a.e >= b.e THEN FNormal(a.m + FShift(b.m, a.e - b.e), a.e)
    ELSE FNormal(FShift(a.m, b.e - a.e) + b.m, b.e)

\* a - b
FSub(a, b) == FAdd(a, FNeg(b))

\* a < b
FLess(a, b) == FSub(a, b).m < 0

\* a * b / 2^30 for mantissas a, b, by halves so that no intermediate
\* product leaves the 32-bit range of the model checker's integers.
FMulTop(a, b) ==
    LET a1 == a \div FHalf
        a0 == a % FHalf
        b1 == b \div FHalf
        b0 == b % FHalf
    IN  a1 * b1 + ((a1 * b0 + a0 * b1) + ((a0 * b0) \div FHalf)) \div FHalf

\* a * b
FMul(a, b) ==
    IF a.m = 0 \/ b.m = 0 THEN [m |-> 0, e |-> 0]
    ELSE FNormal(Sgn(a.m) * Sgn(b.m) * FMulTop(Abs(a.m), Abs(b.m)), a.e + b.e + 30)

\* y * (2 - b * y): one step towards 1 / b
FRecipStep(b, y) == FMul(y, FSub(FromInt(2), FMul(b, y)))

\* 1 / b for 1/2 <= b < 1, from the estimate 3 - 2 * b; five steps make it
\* good to the last bits.
FRecip(b) ==
    LET y0 == FSub(FromInt(3), FMul(FromInt(2), b))
    IN  FRecipStep(b, FRecipStep(b, FRecipStep(b, FRecipStep(b, FRecipStep(b, y0)))))

\* a / b for b # 0
FDiv(a, b) ==
    LET r == FRecip([m |-> Abs(b.m), e |-> -30])
    IN  FMul(a, [m |-> Sgn(b.m) * r.m, e |-> r.e - b.e - 30])

\* a / 2
FHalve(a) == IF a.m = 0 THEN a ELSE [m |-> a.m, e |-> a.e - 1]

\* x * x * ... * x, n >= 0 factors
RECURSIVE FPow(_, _)
FPow(x, n) ==
    IF n = 0 THEN FromInt(1)
    ELSE IF n % 2 = 1 THEN FMul(FPow(x, n - 1), x)
    ELSE LET h == FPow(x, n \div 2) IN FMul(h, h)

\* The largest mantissa m in lo..hi with (m * 2^e) ** n <= x.
RECURSIVE FRootSearch(_, _, _, _, _)
FRootSearch(lo, hi, e, n, x) ==
    IF lo >= hi THEN lo
    ELSE LET mid == lo + (hi - lo + 1) \div 2
         IN  IF FLess(x, FPow([m |-> mid, e |-> e], n))
             THEN FRootSearch(lo, mid - 1, e, n, x)
             ELSE FRootSearch(mid, hi, e, n, x)

\* x ** (1 / n) for x > 0 and a whole n >= 1
FRoot(x, n) ==
    LET k == (x.e + 29) \div n
    IN  [m |-> FRootSearch(FTop \div 2, FTop - 1, k - 29, n, x), e |-> k - 29]

\* ** raises OverflowError on a result of 2^1024 or more.
PowOverflows(p) == p.m # 0 /\ p.e + 29 >= 1024

\* ** gives 0.0 for a zero base and for a result that rounds to zero.
PowIsZero(p) == p.m = 0 \/ p.e + 30 <= -1075

\* MaxIterations=200
MaxIterations == 200

\* Precision=1e-6, also the step of the finite difference
Precision == FDiv(FromInt(1), FromInt(10^6))

\* 1e-10
DerivativeFloor == FDiv(Precision, FromInt(10^4))

\* The bracket [-0.99, 5.0]
LowRate == FDiv(FromInt(-99), FromInt(100))

HighRate == FromInt(5)

\* (d - Dates[0]).days / 365.25 for dates in units of 1461 days
YearsBetween(first, d) == 4 * (d - first)

RECURSIVE SumWhere(_, _, _)
SumWhere(Cashflows, i, sign) ==
    IF i > Len(Cashflows) THEN 0
    ELSE (IF Cashflows[i] * sign > 0 THEN Cashflows[i] ELSE 0)
         + SumWhere(Cashflows, i + 1, sign)

\* sum(cf for cf in Cashflows if cf < 0)
TotalInvestedOf(Cashflows) == SumWhere(Cashflows, 1, -1)

\* sum(cf for cf in Cashflows if cf > 0)
FinalValueOf(Cashflows) == SumWhere(Cashflows, 1, 1)

\* The error raised by CalculateNetPresentValue(Rate) on the terms from i
\* on, "" if there is none: ** overflows, or the divisor is 0.0.
RECURSIVE NpvError(_, _, _, _)
NpvError(Rate, Cashflows, Dates, i) ==
    IF i > Len(Cashflows) THEN ""
    ELSE LET p == FPow(FAdd(FromInt(1), Rate), YearsBetween(Dates[1], Dates[i]))
         IN  IF PowOverflows(p) THEN "OverflowError"
             ELSE IF PowIsZero(p) THEN "ZeroDivisionError"
             ELSE NpvError(Rate, Cashflows, Dates, i + 1)

\* CalculateNetPresentValue(Rate), the terms from i on.
RECURSIVE CalculateNetPresentValue(_, _, _, _)
CalculateNetPresentValue(Rate, Cashflows, Dates, i) ==
    IF i > Len(Cashflows) THEN FromInt(0)
    ELSE LET rest == CalculateNetPresentValue(Rate, Cashflows, Dates, i + 1)
             term == FDiv(FromInt(Cashflows[i]),
                          FPow(FAdd(FromInt(1), Rate),
                               YearsBetween(Dates[1], Dates[i])))
         IN  IF i = Len(Cashflows) THEN term
             ELSE FAdd(term, rest)

\* Lines 20-21 and 29: the clamped initial guess.
InitialRate(Cashflows, Dates) ==
    LET Years == YearsBetween(Dates[1], Dates[Len(Dates)])
        InitialGuess ==
            IF Years > 0
            THEN FSub(FRoot(FDiv(FromInt(FinalValueOf(Cashflows)),
                                 FromInt(-TotalInvestedOf(Cashflows))), Years),
                      FromInt(1))
            ELSE FDiv(FromInt(1), FromInt(10))
        capped == IF FLess(InitialGuess, HighRate) THEN InitialGuess ELSE HighRate
    IN  IF FLess(LowRate, capped) THEN capped ELSE LowRate

\* The least |NPV| among the candidate rates evaluated, with its rate.
Better(best, Rate, AbsNpv) ==
    IF FLess(AbsNpv, best.AbsNpv) THEN [Rate |-> Rate, AbsNpv |-> AbsNpv] ELSE best

NoSolver ==
    [Rate |-> FromInt(0), Low |-> LowRate, High |-> HighRate, Mid |-> FromInt(0),
     MidNpv |-> FromInt(0), Newton |-> 0, Bisect |-> 0,
     Best |-> [Rate |-> FromInt(0), AbsNpv |-> [m |-> FTop \div 2, e |-> 2000]]]

\* A return of CalculateReturns with Rate * 100; AbsNpv is |NPV| at Rate.
Returned(Rate, AbsNpv) ==
    [fn |-> "CalculateReturns", value |-> FMul(Rate, FromInt(100)),
     Rate |-> Rate, AbsNpv |-> AbsNpv]

\* Lines 11-29 of CalculateReturns.
CalculateReturnsStart ==
    /\ pc = "call"
    /\ call.fn = "CalculateReturns"
    /\ IF Len(call.Cashflows) # Len(call.Dates)
       THEN /\ err' = "Number of cashflows must match number of dates"
            /\ pc' = "raised"
            /\ UNCHANGED <<srch, ret>>
       ELSE IF TotalInvestedOf(call.Cashflows) = 0 \/ FinalValueOf(call.Cashflows) = 0
       THEN /\ ret' = [fn |-> "CalculateReturns", value |-> FromInt(0)]
            /\ pc' = "returned"
            /\ UNCHANGED <<srch, err>>
       ELSE /\ srch' = [srch EXCEPT !.Rate = InitialRate(call.Cashflows, call.Dates)]
            /\ pc' = "newton"
            /\ UNCHANGED <<ret, err>>
    /\ UNCHANGED <<inp, run, loc, fc, xr, bd, rt, out, call>>

\* One iteration of the Newton loop, lines 30-38.
NewtonStep ==
    /\ pc = "newton"
    /\ srch.Newton < MaxIterations
    /\ LET Rate == srch.Rate
           Stepped == FAdd(Rate, Precision)
           Npv == CalculateNetPresentValue(Rate, call.Cashflows, call.Dates, 1)
           Derivative ==
               FDiv(FSub(CalculateNetPresentValue(Stepped, call.Cashflows, call.Dates, 1),
                         Npv),
                    Precision)
           seen == [srch EXCEPT !.Newton = @ + 1, !.Best = Better(@, Rate, FAbs(Npv))]
       IN  IF NpvError(Rate, call.Cashflows, call.Dates, 1) # ""
           THEN /\ err' = NpvError(Rate, call.Cashflows, call.Dates, 1)
                /\ pc' = "raised"
                /\ srch' = [srch EXCEPT !.Newton = @ + 1]
                /\ ret' = ret
           ELSE IF FLess(FAbs(Npv), Precision)
           THEN /\ ret' = Returned(Rate, FAbs(Npv))
                /\ pc' = "returned"
                /\ srch' = seen
                /\ err' = err
           ELSE IF NpvError(Stepped, call.Cashflows, call.Dates, 1) # ""
           THEN /\ err' = NpvError(Stepped, call.Cashflows, call.Dates, 1)
                /\ pc' = "raised"
                /\ srch' = seen
                /\ ret' = ret
           ELSE IF FLess(FAbs(Derivative), DerivativeFloor)
           THEN /\ pc' = "bisect"
                /\ srch' = seen
                /\ UNCHANGED <<ret, err>>
           ELSE /\ srch' = [seen EXCEPT !.Rate = FSub(Rate, FDiv(Npv, Derivative))]
                /\ pc' = IF seen.Newton = MaxIterations THEN "bisect" ELSE "newton"
                /\ UNCHANGED <<ret, err>>
    /\ UNCHANGED <<inp, run, loc, fc, xr, bd, rt, out, call>>

\* One iteration of the bisection loop, lines 41-49.
BisectStep ==
    /\ pc = "bisect"
    /\ srch.Bisect < MaxIterations
    /\ LET Mid == FHalve(FAdd(srch.Low, srch.High))
           MidNpv == CalculateNetPresentValue(Mid, call.Cashflows, call.Dates, 1)
           LowNpv == CalculateNetPresentValue(srch.Low, call.Cashflows, call.Dates, 1)
           seen == [srch EXCEPT !.Bisect = @ + 1, !.Mid = Mid, !.MidNpv = MidNpv,
                                !.Best = Better(@, Mid, FAbs(MidNpv))]
       IN  IF NpvError(Mid, call.Cashflows, call.Dates, 1) # ""
           THEN /\ err' = NpvError(Mid, call.Cashflows, call.Dates, 1)
                /\ pc' = "raised"
                /\ srch' = [srch EXCEPT !.Bisect = @ + 1, !.Mid = Mid]
                /\ ret' = ret
           ELSE IF FLess(FAbs(MidNpv), Precision)
           THEN /\ ret' = Returned(Mid, FAbs(MidNpv))
                /\ pc' = "returned"
                /\ srch' = seen
                /\ err' = err
           ELSE IF NpvError(srch.Low, call.Cashflows, call.Dates, 1) # ""
           THEN /\ err' = NpvError(srch.Low, call.Cashflows, call.Dates, 1)
                /\ pc' = "raised"
                /\ srch' = seen
                /\ ret' = ret
           ELSE /\ srch' = IF FMul(MidNpv, LowNpv).m > 0
                           THEN [seen EXCEPT !.Low = Mid]
                           ELSE [seen EXCEPT !.High = Mid]
                /\ pc' = "bisect"
                /\ UNCHANGED <<ret, err>>
    /\ UNCHANGED <<inp, run, loc, fc, xr, bd, rt, out, call>>

\* Line 51: the bisection loop has run out; the last midpoint is returned.
CalculateReturnsLast ==
    /\ pc = "bisect"
    /\ srch.Bisect = MaxIterations
    /\ ret' = Returned(srch.Mid, FAbs(srch.MidNpv))
    /\ pc' = "returned"
    /\ UNCHANGED <<inp, run, srch, loc, fc, xr, bd, rt, out, err, call>>

\* The longest series explored spans 4 * 2 * MaxSpan years.
MaxSpan == 21

\* Series of two and three cashflows of either sign, with dates four years
\* apart, all on one day, or MaxSpan units apart; one with more dates than
\* cashflows.
XirrSeries ==
    {[Cashflows |-> <<a, b>>, Dates |-> d] :
        a \in {-2, 3}, b \in {-2, 3}, d \in {<<0, 1>>, <<0, 0>>}}
    \cup {[Cashflows |-> <<a, b, c>>, Dates |-> d] :
        a \in {-2, 2}, b \in {-3, -1, 3}, c \in {-1, 2, 4},
        d \in {<<0, 1, 2>>, <<0, MaxSpan, 2 * MaxSpan>>}}
    \cup {[Cashflows |-> <<-2, 3>>, Dates |-> <<0, 1, 2>>]}

InitXirr ==
    /\ pc = "call"
    /\ \E s \in XirrSeries :
         call = [fn |-> "CalculateReturns", Cashflows |-> s.Cashflows, Dates |-> s.Dates]
    /\ srch = NoSolver
    /\ ret = NoCall
    /\ inp = NoInp
    /\ run = NoInp
    /\ loc = NoLoc
    /\ fc = NoFc
    /\ xr = NoXr
    /\ bd = NoBd
    /\ rt = NoRt
    /\ out = << >>
    /\ err = ""

NextXirr ==
    \/ CalculateReturnsStart
    \/ NewtonStep
    \/ BisectStep
    \/ CalculateReturnsLast

SpecXirr == InitXirr /\ [][NextXirr]_vars

\* The series has an outflow and an inflow (and as many dates as cashflows).
OutflowAndInflow ==
    /\ call.fn = "CalculateReturns"
    /\ Len(call.Cashflows) = Len(call.Dates)
    /\ TotalInvestedOf(call.Cashflows) # 0
    /\ FinalValueOf(call.Cashflows) # 0

\* C7: on a series with an outflow and an inflow CalculateReturns never
\* raises, runs at most 200 Newton and then at most 200 bisection
\* iterations, and returns a rate whose |NPV| is below the precision or
\* else no larger than that of any candidate rate it evaluated.
C7_ReturnsPreciseOrBestRate ==
    OutflowAndInflow =>
        /\ pc # "raised"
        /\ srch.Newton <= MaxIterations
        /\ srch.Bisect <= MaxIterations
        /\ srch.Bisect > 0 => pc # "newton"
        /\ pc = "returned" =>
              \/ FLess(ret.AbsNpv, Precision)
              \/ ~FLess(srch.Best.AbsNpv, ret.AbsNpv)

\* What does hold of a series with an outflow and an inflow: the iteration
\* counts are bounded, and a rate returned short of the precision is the
\* last bisection midpoint.
ReturnsPreciseOrLastMidpoint ==
    OutflowAndInflow =>
        /\ srch.Newton <= MaxIterations
        /\ srch.Bisect <= MaxIterations
        /\ pc = "returned" =>
              \/ FLess(ret.AbsNpv, Precision)
              \/ srch.Bisect = MaxIterations /\ ret.Rate = srch.Mid

(***************************************************************************)
(* TimeLineBaseSipCalculator up to the final corpus of the run it starts.  *)
(***************************************************************************)

\* Targets reached within four years by contributions, by the lumpsum
\* alone, at once, twice (contributions that turn negative, a step-up
\* below -100%), and never (no money, or no net return).
YearsInputs ==
    {[BaseCall EXCEPT !.EntryPoint = "timeline", !.TargetCorpus = t,
                      !.MonthlyInvestment = m, !.YearlyStepUp = s,
                      !.StartingLumpsum = l] :
        t \in {Units(10000), Units(15000), Units(20000), Units(25000)},
        m \in {Units(500), Units(1000)},
        s \in {-1000, 0, 100},
        l \in {0, Units(5000)}}
    \cup {[BaseCall EXCEPT !.EntryPoint = "timeline", !.TargetCorpus = t,
                          !.MonthlyInvestment = 0] :
        t \in {Units(4000), Units(5500), Units(6000), Units(6500)}}
    \cup {[BaseCall EXCEPT !.EntryPoint = "timeline", !.TargetCorpus = Units(12000),
                          !.YearlyStepUp = -1500, !.StartingLumpsum = 0],
          [BaseCall EXCEPT !.EntryPoint = "timeline", !.MonthlyInvestment = 0,
                          !.StartingLumpsum = 0],
          [BaseCall EXCEPT !.EntryPoint = "timeline", !.ExpectedReturnPercent = 3]}

InitYears ==
    /\ pc = "entry"
    /\ inp \in YearsInputs
    /\ run = NoInp
    /\ srch = NoSrch
    /\ loc = NoLoc
    /\ fc = NoFc
    /\ xr = NoXr
    /\ bd = NoBd
    /\ rt = NoRt
    /\ out = << >>
    /\ err = ""
    /\ call = NoCall
    /\ ret = NoCall

NextYears ==
    \/ TimeLineBaseSipCalculator
    \/ FindRequiredYearsStep
    \/ TimeLineBaseSipCalculatorRun
    \/ Validate
    \/ FinalCorpusStep
    \/ FinalCorpusDone

SpecYears == InitYears /\ [][NextYears]_vars

\* The month counts looked at for the least one that reaches the target.
MonthsLooked == 5 * 12

\* The least number of months from k to MonthsLooked whose future value
\* reaches the target of p, 0 if there is none.
RECURSIVE LeastMonthsFrom(_, _)
LeastMonthsFrom(p, k) ==
    IF k > MonthsLooked THEN 0
    ELSE IF FutureValueOf([p EXCEPT !.InvestmentYears = YearsOfMonths(k)]) >= p.TargetCorpus
    THEN k
    ELSE LeastMonthsFrom(p, k + 1)

\* The run started with the duration found has computed its final corpus,
\* and the target is reachable: some number of months reaches it.
YearsFedBack ==
    /\ pc = "xirr"
    /\ inp.EntryPoint = "timeline"
    /\ run.InvestmentYears = RoundTenth(srch.Mid)
    /\ LeastMonthsFrom(inp, 1) > 0

\* C11 as stated: when the target is reachable, the final balance of the run
\* with the duration returned by FindRequiredYears is >= target.
C11_RequiredYearsReachTarget ==
    YearsFedBack => fc.FinalCorpus >= inp.TargetCorpus

\* C11 as amended: for a step-up of -100% or more, the duration returned
\* covers the least number of months N that reaches the target or one
\* month fewer, and the final balance is >= target exactly when it covers N.
C11_RequiredYearsWithinAMonth ==
    (YearsFedBack /\ inp.YearlyStepUp >= -100 * PctScale) =>
        LET N == LeastMonthsFrom(inp, 1)
        IN  /\ loc.TotalMonths \in {N - 1, N}
            /\ loc.TotalMonths >= 1
            /\ fc.FinalCorpus >= inp.TargetCorpus <=> loc.TotalMonths = N

\* A search over more than a year with a step-up returned a duration that
\* covers the least number of months, and the run reached the target.
C11_Witness ==
    /\ YearsFedBack
    /\ inp.YearlyStepUp > 0
    /\ loc.TotalMonths > 12
    /\ loc.TotalMonths = LeastMonthsFrom(inp, 1)
    /\ fc.FinalCorpus >= inp.TargetCorpus

\* The rounding took the duration a month short, and the run ended below
\* the target.
RoundedDownAMonth ==
    /\ YearsFedBack
    /\ inp.YearlyStepUp >= -100 * PctScale
    /\ loc.TotalMonths = LeastMonthsFrom(inp, 1) - 1
    /\ fc.FinalCorpus < inp.TargetCorpus

====
